---- MODULE Spec2Model ----
(***************************************************************************)
(* Model of the GPM batched-fetch engine (src/gpm/core.py, src/gpm/dates.py). *)
(*                                                                         *)
(* Timestamps are second-precision strings 'YYYY-MM-DDTHH:MM:SS'; a string *)
(* is represented by its number of seconds since 2024-01-01T00:00:00.      *)
(* A datetime is [sec, us] (microsecond field 0..999999), a timedelta is   *)
(* [sec, us] normalised the way Python normalises it (0 <= us < 10^6).     *)
(* Python values that one variable can hold with several types (a list, a  *)
(* dict, None, the integer 416) are tagged records [tag, items].           *)
(***************************************************************************)
EXTENDS Integers, Sequences, FiniteSets, TLC

\* ---------------------------------------------------------------- bounds

\* Deepest split recursion the server is allowed to force (frames on one
\* task's call stack before the server stops answering 416).
MaxDepth == 2

\* ------------------------------------------------------ program constants

\* Identifiers per API call: sources[i:i + 10].
BatchSize == 10

MicrosPerSecond == 1000000

SecondsPerDay == 86400

\* ------------------------------------------------------------ sequences

RECURSIVE Flatten(_)
Flatten(ss) == IF ss = <<>> THEN <<>> ELSE Head(ss) \o Flatten(Tail(ss))

Range(s) == {s[i] : i \in 1..Len(s)}

Min(a, b) == IF a <= b THEN a ELSE b

\* Order of first occurrence: the key order of {ds: 0 for ds in datasources}.
RECURSIVE DictKeys(_)
DictKeys(s) ==
    IF s = <<>> THEN <<>>
    ELSE LET init == DictKeys(SubSeq(s, 1, Len(s) - 1))
             last == s[Len(s)]
         IN  IF last \in Range(init) THEN init ELSE Append(init, last)

\* -------------------------------------------------------- Python values

PyList(items) == [tag |-> "list", items |-> items]
PyNone == [tag |-> "None", items |-> <<>>]
\* The integer 416 returned by make_api_call.
Py416 == [tag |-> "int", items |-> <<>>]
\* A non-empty JSON object, e.g. {"Message": "..."}: the body of an error response.
PyDict == [tag |-> "dict", items |-> <<>>]
\* A TypeError raised while evaluating an expression.
PyRaise == [tag |-> "raise", items |-> <<>>]
\* A response body that is not JSON: response.json() raises on it.
PyNotJson == [tag |-> "notjson", items |-> <<>>]
\* A future that has not completed yet.
PyRunning == [tag |-> "running", items |-> <<>>]

\* bool(v)
Truthy(v) ==
    CASE v.tag = "list" -> v.items # <<>>
      [] v.tag = "None" -> FALSE
      [] v.tag = "int"  -> TRUE
      [] v.tag = "dict" -> TRUE
      [] OTHER -> FALSE

\* a + b: defined for two lists; list + dict, dict + dict ... raise TypeError.
PyAdd(a, b) ==
    IF a.tag = "list" /\ b.tag = "list" THEN PyList(a.items \o b.items)
    ELSE PyRaise

\* ----------------------------------------------------------- dates.py

\* datetime.strptime(s, '%Y-%m-%dT%H:%M:%S')
Strptime(s) == [sec |-> s, us |-> 0]

\* Mutant of Strftime: the timestamp is rounded to the nearest second.
Strftime_Rounds(d) == IF 2 * d.us >= MicrosPerSecond THEN d.sec + 1 ELSE d.sec

\* d.strftime('%Y-%m-%dT%H:%M:%S'): the microsecond field is not printed.
Strftime(d) == d.sec

\* end_datetime - start_datetime
DatetimeSub(a, b) ==
    IF a.us >= b.us THEN [sec |-> a.sec - b.sec, us |-> a.us - b.us]
    ELSE [sec |-> a.sec - b.sec - 1, us |-> a.us - b.us + MicrosPerSecond]

\* start_datetime + delta
DatetimeAdd(d, delta) ==
    IF d.us + delta.us < MicrosPerSecond
    THEN [sec |-> d.sec + delta.sec, us |-> d.us + delta.us]
    ELSE [sec |-> d.sec + delta.sec + 1, us |-> d.us + delta.us - MicrosPerSecond]

\* delta / 2: the quotient in microseconds, rounded half to even.
TimedeltaHalf(delta) ==
    LET rem == (delta.sec % 2) * MicrosPerSecond + delta.us
        q   == rem \div 2
        r   == IF rem % 2 = 1 /\ q % 2 = 1 THEN q + 1 ELSE q
    IN  [sec |-> delta.sec \div 2, us |-> r]

split_dates_in_half(start_date, end_date) ==
    LET start_datetime == Strptime(start_date)
        end_datetime   == Strptime(end_date)
        midpoint == DatetimeAdd(start_datetime,
                        TimedeltaHalf(DatetimeSub(end_datetime, start_datetime)))
    IN  Strftime(midpoint)

\* Mutant of expected_measurement_count: an unrecognized grouping is counted
\* as 'minute'.
expected_measurement_count_AsMinute(start_date, end_date, grouping, granularity) ==
    LET delta == DatetimeSub(Strptime(end_date), Strptime(start_date))
    IN  CASE grouping = "hour" -> [num |-> delta.sec, den |-> 3600 * granularity]
          [] grouping = "day"  -> [num |-> delta.sec \div SecondsPerDay, den |-> granularity]
          [] OTHER             -> [num |-> delta.sec, den |-> 60 * granularity]

\* The estimate as an exact fraction num/den (den > 0). Python computes it in
\* floating point; for the magnitudes modelled the comparison count < estimate
\* has the same outcome as the exact one.
expected_measurement_count(start_date, end_date, grouping, granularity) ==
    LET delta == DatetimeSub(Strptime(end_date), Strptime(start_date))
    IN  CASE grouping = "minute" -> [num |-> delta.sec, den |-> 60 * granularity]
          [] grouping = "hour"   -> [num |-> delta.sec, den |-> 3600 * granularity]
          [] grouping = "day"    -> [num |-> delta.sec \div SecondsPerDay, den |-> granularity]
          [] OTHER               -> [num |-> 0, den |-> 1]

\* count < expected_count
BelowExpected(count, expected) == count * expected.den < expected.num

\* ------------------------------------------------------------ inputs

\* Arguments of get_data_list_in_batches together with what the server may
\* do during the invocation: the per-identifier record counts it may send
\* (counts), the kinds of answer it may give (outcomes) and whether it may
\* answer 416 below the top-level call (depth).
Arg(ds, s, e, grouping, granularity, retries, counts, outcomes, depth) ==
    [datasources |-> ds, start_date |-> s, end_date |-> e, grouping |-> grouping,
     granularity |-> granularity, retries |-> retries, counts |-> counts,
     outcomes |-> outcomes, depth |-> depth]

ElevenIds == <<101, 102, 103, 104, 105, 106, 107, 108, 109, 110, 111>>

Scenarios ==
    { \* 2024-01-01T00:05:00 .. 2024-01-01T01:00:00, every 5 minutes
      Arg(<<101, 102>>, 300, 3600, "minute", 5, 0..3, {5, 6, 11, 12}, {"ok"}, 0),
      \* 2024-01-01T00:00:00 .. 2024-01-03T00:00:00, rejected ranges are split
      Arg(<<101>>, 0, 172800, "hour", 24, {1, 2}, {0, 1, 2},
          {"ok", "rejected", "exception"}, MaxDepth),
      \* intervals of 1 and 0 seconds
      Arg(<<101>>, 0, 1, "minute", 1, {1}, {0, 1}, {"ok", "rejected"}, MaxDepth),
      Arg(<<101>>, 7, 7, "minute", 1, {1}, {0, 1}, {"ok", "rejected"}, MaxDepth),
      \* error answers and failures, one batch
      Arg(<<101, 101, 102>>, 0, 120, "minute", 1, {0, 1, 2}, {0, 2},
          {"ok", "rejected", "error_json", "error_text", "exception"}, 1),
      \* two batches
      Arg(ElevenIds, 0, 60, "minute", 1, {1, 2}, {0, 1},
          {"ok", "rejected", "error_json", "exception"}, 1),
      \* three identifiers satisfied one round after the other
      Arg(<<101, 102, 103>>, 0, 60, "minute", 1, {3}, {0, 1}, {"ok"}, 0),
      \* records of identifiers that were not asked for
      Arg(<<101, 102>>, 0, 60, "minute", 1, {2}, {0, 1}, {"ok", "stray"}, 0),
      \* unrecognized grouping, no identifiers
      Arg(<<101, 102>>, 0, 3600, "week", 1, {0, 2}, {0, 1}, {"ok", "exception"}, 0),
      Arg(<<>>, 0, 3600, "day", 1, {0, 3}, {0, 1}, {"ok"}, 0) }

\* ------------------------------------------------------------- server

\* Seconds between two samples of the series the server holds.
Cadence(grouping, granularity) ==
    CASE grouping = "minute" -> 60 * granularity
      [] grouping = "hour"   -> 3600 * granularity
      [] grouping = "day"    -> SecondsPerDay * granularity
      [] OTHER               -> 1

\* The measurement the server holds for (identifier, timestamp).
ValueAt(id, date) == (id + date) % 7

Measurement(id, date) == [DataSourceId |-> id, Date |-> date, Value |-> ValueAt(id, date)]

\* n records of identifier id, the first one cadence after start.
SeriesOf(id, n, start, cadence) ==
    [k \in 1..n |-> Measurement(id, start + k * cadence)]

\* The body of a 200/206 answer: for each identifier asked for, head records
\* for the first identifier and rest records for each of the others.
RecordsBody(batch, start, cadence, head, rest) ==
    LET ids == DictKeys(batch)
    IN  Flatten([i \in 1..Len(ids) |->
            SeriesOf(ids[i], IF i = 1 THEN head ELSE rest, start, cadence)])

\* An identifier no invocation asks for.
ForeignId == 999

\* Identifiers the server may add a record of to an answer: the first one of
\* the invocation (asked for or not in this call) and a foreign one.
StrayIds(arg) == {Head(arg.datasources), ForeignId}

\* What the server may answer to one GET /api/DataList/v2.
Responses(arg, batch, start, depthLeft) ==
    LET cadence == Cadence(arg.grouping, arg.granularity)
    IN  (IF "ok" \in arg.outcomes
         THEN {[exc |-> FALSE, status |-> st,
                body |-> PyList(RecordsBody(batch, start, cadence, h, r))] :
                  st \in {200, 206}, h \in arg.counts, r \in arg.counts}
         ELSE {})
        \cup (IF "stray" \in arg.outcomes
              THEN {[exc |-> FALSE, status |-> 200,
                     body |-> PyList(RecordsBody(batch, start, cadence, h, r)
                                     \o <<Measurement(id, start + cadence)>>)] :
                       h \in arg.counts, r \in arg.counts, id \in StrayIds(arg)}
              ELSE {})
        \cup (IF "rejected" \in arg.outcomes /\ depthLeft > 0
              THEN {[exc |-> FALSE, status |-> 416, body |-> PyNone]} ELSE {})
        \cup (IF "error_json" \in arg.outcomes
              THEN {[exc |-> FALSE, status |-> 500, body |-> PyDict]} ELSE {})
        \cup (IF "error_text" \in arg.outcomes
              THEN {[exc |-> FALSE, status |-> 502, body |-> PyNotJson]} ELSE {})
        \cup (IF "exception" \in arg.outcomes
              THEN {[exc |-> TRUE, status |-> 0, body |-> PyNone]} ELSE {})

\* ------------------------------------------------------------ core.py

\* response.json(): the body, or an exception when the body is not JSON.
ResponseJson(response) ==
    IF response.body.tag = "notjson" THEN PyRaise ELSE response.body

make_api_call(response) ==
    IF response.exc THEN PyNone                      \* requests.get raised
    ELSE IF response.status \in {200, 206}
         THEN (IF ResponseJson(response).tag = "raise" THEN PyNone
               ELSE ResponseJson(response))
    ELSE IF response.status = 416 THEN Py416
    ELSE (IF ResponseJson(response).tag = "raise" THEN PyNone
          ELSE ResponseJson(response))

\* first_half + second_half if first_half and second_half else []
CombineHalves(first_half, second_half) ==
    IF Truthy(first_half) /\ Truthy(second_half)
    THEN PyAdd(first_half, second_half)
    ELSE PyList(<<>>)

\* -------------------------------------------------------------- state

VARIABLES
    arg,            \* the arguments of the invocation and the server's menu
    max_retries,    \* argument max_retries
    pc,             \* "loop" (at the while test), "fetch" (inside fetch_data,
                    \* waiting for the futures), "done" (returned), "raised"
    datasources,    \* the local variable datasources: the Pending list
    retry_count,
    complete_data,  \* the accumulator
    tasks,          \* fetch_data: one submitted get_data_list call per batch
    hist,           \* history: one entry per completed round
    lastSplit,      \* history: the last get_data_list call that split its range
    finished        \* history: the tasks of the round in the order they completed

vars == <<arg, max_retries, pc, datasources, retry_count, complete_data, tasks,
          hist, lastSplit, finished>>

\* The functions of dates.py, data.py and api.py are also run one call at a
\* time: call holds a function's name and arguments, outcome what the call
\* returned (and what it left in the objects it was given).
VARIABLES
    call,
    outcome

allVars == <<vars, call, outcome>>

NoCall == [op |-> "none"]

NotCalled == [done |-> FALSE]

NoSplit ==
    [seen |-> FALSE, start |-> 0, mid |-> 0, end |-> 0,
     first_half |-> PyNone, second_half |-> PyNone, returned |-> PyNone]

Init ==
    /\ arg \in Scenarios
    /\ max_retries \in arg.retries
    /\ pc = "loop"
    /\ datasources = arg.datasources
    /\ retry_count = 0
    /\ complete_data = <<>>
    /\ tasks = <<>>
    /\ hist = <<>>
    /\ lastSplit = NoSplit
    /\ finished = <<>>
    /\ call = NoCall
    /\ outcome = NotCalled

\* Mutant of Batches: only full batches are cut, the remainder is left out.
Batches_FullOnly(sources) ==
    [b \in 1..(Len(sources) \div BatchSize) |->
        SubSeq(sources, (b - 1) * BatchSize + 1, b * BatchSize)]

\* batches = [sources[i:i + 10] for i in range(0, len(sources), 10)]
Batches(sources) ==
    [b \in 1..((Len(sources) + BatchSize - 1) \div BatchSize) |->
        SubSeq(sources, (b - 1) * BatchSize + 1, Min(b * BatchSize, Len(sources)))]

\* One activation of get_data_list: stage "call" before make_api_call
\* returns, "first" / "second" while the recursive call on that half runs.
Frame(start, end) ==
    [start |-> start, end |-> end, stage |-> "call", mid |-> start,
     first_half |-> PyNone]

\* executor.submit(self.get_data_list, batch, start_date, end_date, ...)
Submit(batch) ==
    [batch |-> batch, stack |-> <<Frame(arg.start_date, arg.end_date)>>,
     result |-> PyRunning, failed |-> FALSE, errors |-> FALSE, rejected |-> FALSE]

\* Mutant of LoopTest: the test forgets the Pending list.
LoopTest_IgnoresPending == retry_count < max_retries

\* while datasources and retry_count < max_retries
LoopTest == datasources # <<>> /\ retry_count < max_retries

\* The loop test holds: fetch_data(datasources) submits one call per batch.
Dispatch ==
    /\ pc = "loop"
    /\ LoopTest
    /\ pc' = "fetch"
    /\ tasks' = [b \in 1..Len(Batches(datasources)) |-> Submit(Batches(datasources)[b])]
    /\ finished' = <<>>
    /\ UNCHANGED <<arg, max_retries, datasources, retry_count, complete_data,
                   hist, lastSplit, call, outcome>>

Pop(stack) == SubSeq(stack, 1, Len(stack) - 1)

Top(stack) == stack[Len(stack)]

\* get_data_list returns val from the top frame of stack: the caller, if it
\* is waiting for its first half, calls get_data_list on the second half; if
\* it is waiting for the second, it returns the combination in its turn (an
\* exception unwinds every frame). The result is the stack left, the
\* future's result (running while frames remain) and the last split done.
RECURSIVE ReturnFrom(_, _, _)
ReturnFrom(stack, val, split) ==
    LET rest == Pop(stack)
    IN  IF rest = <<>> THEN [stack |-> <<>>, result |-> val, split |-> split]
        ELSE IF val.tag = "raise" THEN [stack |-> <<>>, result |-> val, split |-> split]
        ELSE LET caller == Top(rest)
             IN  IF caller.stage = "first"
                 THEN [stack |-> Pop(rest)
                            \o <<[caller EXCEPT !.stage = "second", !.first_half = val]>>
                            \o <<Frame(caller.mid, caller.end)>>,
                       result |-> PyRunning, split |-> split]
                 ELSE LET ret == CombineHalves(caller.first_half, val)
                      IN  ReturnFrom(rest, ret,
                             [seen |-> TRUE, start |-> caller.start, mid |-> caller.mid,
                              end |-> caller.end, first_half |-> caller.first_half,
                              second_half |-> val, returned |-> ret])

\* get_data_list, from make_api_call's return to the next make_api_call (or
\* to the return of the outermost call): res == 416 splits the range and
\* calls get_data_list on the first half, anything else is returned.
get_data_list(task, response) ==
    LET frame == Top(task.stack)
        res   == make_api_call(response)
        seen  == [task EXCEPT
                    !.failed = @ \/ res.tag = "None",
                    !.errors = @ \/ (~response.exc
                                       /\ response.status \notin {200, 206, 416}
                                       /\ response.body.tag # "notjson"),
                    !.rejected = @ \/ res.tag = "int"]
    IN  IF res.tag = "int"
        THEN LET midpoint == split_dates_in_half(frame.start, frame.end)
             IN  [task  |-> [seen EXCEPT !.stack = Pop(task.stack)
                               \o <<[frame EXCEPT !.stage = "first", !.mid = midpoint]>>
                               \o <<Frame(frame.start, midpoint)>>],
                  split |-> lastSplit]
        ELSE LET r == ReturnFrom(task.stack, res, lastSplit)
             IN  [task  |-> [seen EXCEPT !.stack = r.stack, !.result = r.result],
                  split |-> r.split]

\* How many more frames the server lets this task push.
DepthLeft(task) == Min(arg.depth, MaxDepth) - (Len(task.stack) - 1)

\* The server answers the call task b is waiting on.
ApiCall(b) ==
    /\ pc = "fetch"
    /\ tasks[b].stack # <<>>
    /\ \E response \in Responses(arg, tasks[b].batch, Top(tasks[b].stack).start,
                                 DepthLeft(tasks[b])) :
          LET r == get_data_list(tasks[b], response)
          IN  /\ tasks' = [tasks EXCEPT ![b] = r.task]
              /\ lastSplit' = r.split
              /\ finished' = IF r.task.stack = <<>> THEN Append(finished, b)
                              ELSE finished
    /\ UNCHANGED <<arg, max_retries, pc, datasources, retry_count, complete_data, hist,
                   call, outcome>>

\* results = [future.result() for future in futures]
Results == [b \in 1..Len(tasks) |-> tasks[b].result]

\* What combined.extend(result) appends for one result (None is skipped).
Contribution(result) == IF result.tag = "list" THEN result.items ELSE <<>>

\* Mutant of Combined: a record already merged is not merged again.
Combined_Dedup(results) ==
    LET all == Flatten([b \in 1..Len(results) |-> Contribution(results[b])])
        kept == SelectSeq([i \in 1..Len(all) |-> [pos |-> i, item |-> all[i]]],
                          LAMBDA x : \A j \in 1..(x.pos - 1) : all[j] # x.item)
    IN  [k \in 1..Len(kept) |-> kept[k].item]

\* Mutant of Combined: the results are merged in the order the tasks
\* completed (as with as_completed).
Combined_AsCompleted(results) ==
    Flatten([k \in 1..Len(finished) |-> Contribution(results[finished[k]])])

\* combined, lines 313-317
Combined(results) == Flatten([b \in 1..Len(results) |-> Contribution(results[b])])

\* Mutant of Raises: the merge forgets "if result is not None", and
\* combined.extend(None) raises.
Raises_OnNone(results) ==
    \E b \in 1..Len(results) : results[b].tag \in {"raise", "dict", "None"}

\* future.result() re-raises a task's exception; extending combined with a
\* dict appends its keys (strings), and item['DataSourceId'] on a string
\* raises TypeError in the counting loop.
Raises(results) ==
    \E b \in 1..Len(results) : results[b].tag \in {"raise", "dict"}

\* response_counts[ds] after the counting loop
CountOf(ds, data) == Cardinality({i \in 1..Len(data) : data[i].DataSourceId = ds})

\* Mutant of StillPending: the ledger counts the accumulator, not the round.
StillPending_Accumulated(sources, data, expected_count) ==
    SelectSeq(DictKeys(sources),
              LAMBDA ds : BelowExpected(CountOf(ds, complete_data \o data), expected_count))

\* Mutant of StillPending: an identifier is kept only when it got no record.
StillPending_OnlyEmpty(sources, data, expected_count) ==
    SelectSeq(DictKeys(sources), LAMBDA ds : CountOf(ds, data) = 0)

\* Mutant of StillPending: the ledger is built from the requested list, not
\* from the current Pending list.
StillPending_FromRequested(sources, data, expected_count) ==
    SelectSeq(DictKeys(arg.datasources),
              LAMBDA ds : BelowExpected(CountOf(ds, data), expected_count))

\* Mutant of StillPending: an identifier whose count equals expected_count
\* is kept.
StillPending_AtMost(sources, data, expected_count) ==
    SelectSeq(DictKeys(sources),
              LAMBDA ds : CountOf(ds, data) * expected_count.den <= expected_count.num)

\* [ds for ds, count in response_counts.items() if count < expected_count]
StillPending(sources, data, expected_count) ==
    SelectSeq(DictKeys(sources), LAMBDA ds : BelowExpected(CountOf(ds, data), expected_count))

\* Mutant of Extend: records already accumulated are not added again.
Extend_Dedup(accumulator, data) ==
    accumulator \o SelectSeq(data, LAMBDA item : item \notin Range(accumulator))

\* complete_data.extend(data)
Extend(accumulator, data) == accumulator \o data

ExpectedCount ==
    expected_measurement_count(arg.start_date, arg.end_date, arg.grouping, arg.granularity)

\* Every future is done: fetch_data merges, the loop body extends the
\* accumulator, counts and filters (lines 310-336).
Evaluate ==
    /\ pc = "fetch"
    /\ \A b \in 1..Len(tasks) : tasks[b].stack = <<>>
    /\ IF Raises(Results)
       THEN /\ pc' = "raised"
            /\ UNCHANGED <<datasources, retry_count, complete_data, hist>>
       ELSE LET data == Combined(Results)
            IN  /\ complete_data' = Extend(complete_data, data)
                /\ datasources' = StillPending(datasources, data, ExpectedCount)
                /\ retry_count' = retry_count + 1
                /\ hist' = Append(hist, [pending |-> datasources, tasks |-> tasks,
                                         data |-> data])
                /\ pc' = "loop"
    /\ UNCHANGED <<arg, max_retries, tasks, lastSplit, finished, call, outcome>>

\* The loop test fails: return complete_data.
Return ==
    /\ pc = "loop"
    /\ ~LoopTest
    /\ pc' = "done"
    /\ UNCHANGED <<arg, max_retries, datasources, retry_count, complete_data, tasks,
                   hist, lastSplit, finished, call, outcome>>

Next ==
    \/ Dispatch
    \/ \E b \in 1..Len(tasks) : ApiCall(b)
    \/ Evaluate
    \/ Return

Spec == Init /\ [][Next]_allVars

\* ------------------------------------------------- single function calls

\* Longest interval, in seconds, given to split_dates_in_half on its own.
MaxSpan == 7

\* 2024-01-01T00:00:00, 00:00:59, 23:59:59 and 2024-01-02T23:59:58
SplitStarts == {0, 59, 86399, 172798}

SplitCalls ==
    {[op |-> "split_dates_in_half", start_date |-> s, end_date |-> s + n] :
        s \in SplitStarts, n \in 0..MaxSpan}

\* The two recursive calls of get_data_list after a 416: on
\* (start_date, midpoint) and on (midpoint, end_date).
SplitHalves(start_date, end_date) ==
    LET midpoint == split_dates_in_half(start_date, end_date)
    IN  [midpoint |-> midpoint,
         left  |-> [start |-> start_date, end |-> midpoint],
         right |-> [start |-> midpoint, end |-> end_date]]

CallSplit ==
    /\ call.op = "split_dates_in_half"
    /\ ~outcome.done
    /\ outcome' = [done |-> TRUE,
                   halves |-> SplitHalves(call.start_date, call.end_date)]
    /\ UNCHANGED <<vars, call>>

\* Largest granularity given to expected_measurement_count on its own.
MaxGranularity == 5

\* End instants of the intervals estimated, all starting 2024-01-01T00:00:00:
\* 0 s, 1 s, 90 s, 1 h, 1 h 30, 1 day, 1 day 1 h.
EstimateEnds == {0, 1, 90, 3600, 5400, 86400, 90000}

EstimateCalls ==
    {[op |-> "expected_measurement_count", start_date |-> 0, end_date |-> e,
      grouping |-> g, granularity |-> n] :
        e \in EstimateEnds, g \in {"minute", "hour", "day", "week", "5MIN"},
        n \in 0..MaxGranularity}

\* A call of expected_measurement_count: the division raises
\* ZeroDivisionError for granularity 0; the final else branch divides nothing.
CallEstimate ==
    /\ call.op = "expected_measurement_count"
    /\ ~outcome.done
    /\ outcome' =
          IF call.grouping \in {"minute", "hour", "day"} /\ call.granularity = 0
          THEN [done |-> TRUE, raised |-> TRUE, value |-> [num |-> 0, den |-> 1]]
          ELSE [done |-> TRUE, raised |-> FALSE,
                value |-> expected_measurement_count(call.start_date, call.end_date,
                                                     call.grouping, call.granularity)]
    /\ UNCHANGED <<vars, call>>

\* ------------------------------------------------------------ data.py
\* A date held by a frame or a record is [type, t]: the string of a JSON
\* answer ("str"), a pandas Timestamp ("Timestamp") or a missing value
\* ("NaN"); t is the instant in seconds. A Timestamp and the string that
\* prints the same instant are different values.
StrDate(t) == [type |-> "str", t |-> t]

Timestamp(t) == [type |-> "Timestamp", t |-> t]

NaN == [type |-> "NaN", t |-> 0]

\* pd.to_datetime on one value of a column.
to_datetime(d) == IF d.type = "str" THEN Timestamp(d.t) ELSE d

\* The columns ['DataSourceId', 'Date'] of a row.
Key(row) == <<row.DataSourceId, row.Date>>

\* rows.drop_duplicates(subset=['DataSourceId', 'Date']): keep is left at its
\* default 'first', a row is dropped when an earlier row has its key.
RECURSIVE drop_duplicates(_)
drop_duplicates(rows) ==
    IF rows = <<>> THEN <<>>
    ELSE LET init == drop_duplicates(SubSeq(rows, 1, Len(rows) - 1))
             last == rows[Len(rows)]
         IN  IF \E i \in 1..Len(init) : Key(init[i]) = Key(last)
             THEN init ELSE Append(init, last)

field_mapper ==
    [n \in {"COM STATUS", "COMS STATUS", "Plant Com Status"} |-> "Com Status"] @@
    [n \in {"Plant Energy", "Total Meter Energy", "Total Meters Energy"} |-> "Energy"] @@
    [n \in {"Plant Power", "Total Meter Power", "Total Meters Power"} |-> "Power"] @@
    [n \in {"Plant Irradiance"} |-> "Irradiance"]

\* A mapper of the caller's whose canonical label for 'Plant Energy' is the
\* string 'drop'.
DropLabelMapper ==
    [n \in {"Plant Power"} |-> "Power"] @@ [n \in {"Plant Energy"} |-> "drop"]

\* field_mapper=None (or an empty dict): `if field_mapper:` is false.
NoMapper == [n \in {} |-> ""]

\* merge_and_pivot(df, ds, index_col=None, field_mapper=mapper, pivot=False,
\* set_datetime=set_datetime): ds maps each known DataSourceId to its
\* DataSourceName. The result is the caller's df as the call leaves it (the
\* duplicate drop and the date conversion are made in place) and the merged
\* frame returned.
merge_and_pivot(df, ds, mapper, set_datetime) ==
    LET deduplicated == drop_duplicates(df)
        dated == IF set_datetime
                 THEN [i \in 1..Len(deduplicated) |->
                          [deduplicated[i] EXCEPT !.Date = to_datetime(@)]]
                 ELSE deduplicated
        joined == SelectSeq(dated, LAMBDA r : r.DataSourceId \in DOMAIN ds)
        NameOf(id) == IF DOMAIN mapper = {} THEN ds[id]
                      ELSE IF ds[id] \in DOMAIN mapper THEN mapper[ds[id]]
                      ELSE "drop"
        named == [i \in 1..Len(joined) |->
                     [DataSourceId |-> joined[i].DataSourceId, Date |-> joined[i].Date,
                      Value |-> joined[i].Value,
                      DataSourceName |-> NameOf(joined[i].DataSourceId)]]
        merged == IF DOMAIN mapper = {} THEN named
                  ELSE SelectSeq(named, LAMBDA r : r.DataSourceName # "drop")
    IN  [df |-> dated, merged |-> merged]

\* Most rows in a frame handed to merge_and_pivot.
MaxRows == 3

SeqsUpTo(S, n) == UNION {[1..k -> S] : k \in 0..n}

\* Records as the API returns them.
ApiRecords ==
    {[DataSourceId |-> id, Date |-> StrDate(t), Value |-> v] :
        id \in {101, 102}, t \in {0, 300}, v \in {1, 2}}

\* The DataSource frames: both identifiers named, 102 unknown, 102 under a
\* name field_mapper does not hold.
DataSourceFrames ==
    {101 :> "Plant Power" @@ 102 :> "Plant Energy",
     101 :> "Total Meter Power",
     101 :> "Plant Power" @@ 102 :> "Inverter 1 Power"}

MergeCalls ==
    {[op |-> "merge_and_pivot", df |-> df, ds |-> ds, field_mapper |-> m,
      set_datetime |-> sd] :
        df \in SeqsUpTo(ApiRecords, MaxRows), ds \in DataSourceFrames,
        m \in {NoMapper, field_mapper, DropLabelMapper}, sd \in BOOLEAN}

CallMerge ==
    /\ call.op = "merge_and_pivot"
    /\ ~outcome.done
    /\ outcome' = [done |-> TRUE,
                   frames |-> merge_and_pivot(call.df, call.ds, call.field_mapper,
                                              call.set_datetime)]
    /\ UNCHANGED <<vars, call>>

\* ------------------------------------------- dates.py: get_missing_dates
\* A frame is [index, rows]. index says where the dates are: "Date" (a
\* DatetimeIndex named Date), "PlantDate" (a MultiIndex (PlantId, Date)),
\* "RangeIndex" (a default index, the dates in the column 'Date') or "NoDate"
\* (a default index and no column 'Date'). A row is [PlantId, DataSourceId,
\* Date, Value], whether a field is a column or an index level.
DataFrame(index, rows) == [index |-> index, rows |-> rows]

\* timedelta(minutes=5), freq='5MIN' and the 5 of floor_and_format.
FiveMinutes == 300

\* timedelta(minutes=15)
Lag == 900

\* The instant printed without its seconds and with its minutes floored to a
\* multiple of 5.
floor_and_format(date) == date.sec - (date.sec % FiveMinutes)

\* Mutant of normalize: the time of day is kept.
normalize_KeepsTime(ts) == ts

\* Timestamp.normalize(): midnight of the same day.
normalize(ts) == Timestamp(ts.t - (ts.t % SecondsPerDay))

check_datetime_index(df) == df.index \in {"Date", "PlantDate"}

\* df.loc[plant_id] on a frame indexed by (PlantId, Date): the rows of the
\* plant in a new frame indexed by Date.
Loc(df, plant_id) ==
    DataFrame("Date", SelectSeq(df.rows, LAMBDA r : r.PlantId = plant_id))

\* min(a, b) of two datetimes.
DatetimeMin(a, b) ==
    IF a.sec < b.sec \/ (a.sec = b.sec /\ a.us <= b.us) THEN a ELSE b

\* The pair (None, None).
NoneNone == [none |-> TRUE, start |-> NaN, end |-> NaN]

\* check_complete_index(df, start_date, end_date) where dates are the instants
\* of df.index.get_level_values('Date') and now is datetime.now().
check_complete_index(dates, start_date, end_date, now) ==
    LET start == Strptime(start_date)
        end   == DatetimeMin(Strptime(end_date), DatetimeSub(now, [sec |-> Lag, us |-> 0]))
        expected_range ==
            {start.sec + FiveMinutes * k : k \in 1..((end.sec - start.sec) \div FiveMinutes)}
        diff  == expected_range \ dates
        first == CHOOSE x \in diff : \A y \in diff : x <= y
        last  == CHOOSE x \in diff : \A y \in diff : y <= x
    IN  IF diff = {} THEN NoneNone
        ELSE [none  |-> FALSE,
              start |-> normalize(Timestamp(first)),
              end   |-> Timestamp(normalize(Timestamp(last)).t + SecondsPerDay)]

\* get_missing_dates(df, start_date, end_date, plant_id=plant_id) called at
\* the instant now, plant_id 0 standing for None (`if plant_id:` is false for
\* both). The result is the pair returned, whether the call raised (a frame
\* with neither a DatetimeIndex nor a column 'Date'), and df, the caller's
\* frame as the call leaves it: df['Date'] = pd.to_datetime(df['Date']) is an
\* assignment into the frame the caller passed.
get_missing_dates(df, start_date, end_date, plant_id, now) ==
    LET located == IF plant_id # 0 THEN Loc(df, plant_id) ELSE df
        start == floor_and_format(Strptime(start_date))
        end   == floor_and_format(Strptime(end_date))
        converted == [located EXCEPT !.rows =
                         [i \in 1..Len(located.rows) |->
                             [located.rows[i] EXCEPT !.Date = to_datetime(@)]]]
        indexed == IF check_datetime_index(located) THEN located
                   ELSE DataFrame("Date", converted.rows)
        dates == {indexed.rows[i].Date.t : i \in 1..Len(indexed.rows)}
        kept  == {d \in dates : d >= start /\ d <= end}
    IN  IF located.index = "NoDate"
        THEN [raised |-> TRUE, missing |-> NoneNone, df |-> df]
        ELSE [raised |-> FALSE,
              missing |-> check_complete_index(kept, start, end, now),
              df |-> IF check_datetime_index(located) THEN df ELSE converted]

\* Days of data in the largest frames.
MaxDays == 3

\* The rows of one DataSourceId of one plant: a row every five minutes from
\* `from` to `to`, none in [gap_start, gap_end).
Series(plant, id, dated, from, to, gap_start, gap_end) ==
    LET grid == [k \in 1..((to - from) \div FiveMinutes + 1) |->
                    from + FiveMinutes * (k - 1)]
        held == SelectSeq(grid, LAMBDA d : ~(gap_start <= d /\ d < gap_end))
    IN  [i \in 1..Len(held) |->
            [PlantId |-> plant, DataSourceId |-> id, Date |-> dated[held[i]],
             Value |-> ValueAt(id, held[i])]]

LastDay == MaxDays * SecondsPerDay

\* Frames of MaxDays days: complete, or with the whole of one inner day
\* missing, under each kind of index; plant 1 complete and plant 2 with a
\* missing day; a day missing from 00:05:00 to the next 00:00:00; a frame
\* without dates.
LongFrames ==
    LET Strs == [d \in 0..LastDay |-> StrDate(d)]
        Stamps == [d \in 0..LastDay |-> Timestamp(d)]
    IN  {DataFrame("Date", Series(1, 101, Stamps, 0, LastDay, 0, 0)),
         DataFrame("NoDate", Series(1, 101, Stamps, 0, FiveMinutes, 0, 0))}
        \cup
        {DataFrame(index, Series(1, 101, IF index = "RangeIndex" THEN Strs ELSE Stamps,
                                 0, LastDay, day * SecondsPerDay,
                                 (day + 1) * SecondsPerDay)) :
            index \in {"Date", "RangeIndex"}, day \in 1..(MaxDays - 2)}
        \cup
        {DataFrame("Date", Series(1, 101, Stamps, 0, LastDay,
                                  SecondsPerDay + FiveMinutes,
                                  2 * SecondsPerDay + FiveMinutes)),
         DataFrame("RangeIndex", Series(1, 101, Strs, 0, LastDay, 0, 0)),
         DataFrame("PlantDate",
                   Series(1, 101, Stamps, 0, LastDay, 0, 0) \o
                   Series(2, 102, Stamps, 0, LastDay, SecondsPerDay, 2 * SecondsPerDay))}

\* datetime.now() is never before the last row of the frame: just after it,
\* a quarter of an hour after it, a day after it.
Nows(last) ==
    {[sec |-> last, us |-> 500000], [sec |-> last + Lag, us |-> 0],
     [sec |-> last + SecondsPerDay, us |-> 250000]}

MissingCall(df, s, p, now) ==
    [op |-> "get_missing_dates", df |-> df, start_date |-> s, end_date |-> LastDay,
     plant_id |-> p, now |-> now]

\* plant_id is given only with a frame indexed by (PlantId, Date).
MissingCalls ==
    {MissingCall(df, s, 0, now) :
        df \in LongFrames, s \in {0, 430}, now \in Nows(LastDay)}
    \cup
    {MissingCall(df, s, p, now) :
        df \in {f \in LongFrames : f.index = "PlantDate"}, s \in {0, 430},
        p \in {1, 2}, now \in Nows(LastDay)}

CallMissing ==
    /\ call.op = "get_missing_dates"
    /\ ~outcome.done
    /\ outcome' = [done |-> TRUE,
                   returned |-> get_missing_dates(call.df, call.start_date, call.end_date,
                                                  call.plant_id, call.now)]
    /\ UNCHANGED <<vars, call>>

\* ------------------------------------------- api.py: get_data_for_range
\* existing_df=None
NoFrame == DataFrame("None", <<>>)

\* An integer in a column that also holds NaN.
IntCell(n) == [type |-> "int", t |-> n]

\* The rows of a frame as pd.concat lays them out under the union of the
\* columns: label is the index label, a field that is an index level (or a
\* column the frame lacks) is NaN as a column.
Columns(df) ==
    [i \in 1..Len(df.rows) |->
        LET r == df.rows[i]
        IN  [label |-> CASE df.index = "Date" -> <<r.Date>>
                         [] df.index = "PlantDate" -> <<r.PlantId, r.Date>>
                         [] OTHER -> <<i - 1>>,
             PlantId |-> IF df.index = "PlantDate" THEN NaN ELSE IntCell(r.PlantId),
             DataSourceId |-> r.DataSourceId,
             Date |-> IF df.index = "RangeIndex" THEN r.Date ELSE NaN,
             Value |-> r.Value]]

\* pd.DataFrame(data) for a list of API records, laid out the same way.
FromRecords(data) ==
    [i \in 1..Len(data) |->
        [label |-> <<i - 1>>, PlantId |-> NaN, DataSourceId |-> data[i].DataSourceId,
         Date |-> data[i].Date, Value |-> data[i].Value]]

\* get_data_for_range(client, start_date, end_date, datasourceids=[...],
\* plant_id=plant_id, existing_df=existing_df, return_df=return_df) called at
\* the instant now, data being what client.get_data_list_in_batches returns.
\* The result: whether the call raised, whether the client was asked and for
\* which interval, what is returned ("existing_df", the "list" data or a new
\* "DataFrame") with its rows, and existing_df, the caller's frame as the
\* call leaves it.
get_data_for_range(existing_df, start_date, end_date, plant_id, return_df, now, data) ==
    LET checked == existing_df # NoFrame
        gap  == get_missing_dates(existing_df, start_date, end_date, plant_id, now)
        left == IF checked THEN gap.df ELSE NoFrame
        concat == IF checked THEN Columns(left) \o FromRecords(data)
                  ELSE FromRecords(data)
    IN  IF checked /\ gap.raised
        THEN [raised |-> TRUE, fetched |-> FALSE, start_date |-> NaN, end_date |-> NaN,
              returns |-> "nothing", rows |-> <<>>, existing_df |-> left]
        ELSE IF checked /\ gap.missing.none
        THEN [raised |-> FALSE, fetched |-> FALSE, start_date |-> NaN, end_date |-> NaN,
              returns |-> "existing_df", rows |-> left.rows, existing_df |-> left]
        ELSE [raised |-> FALSE, fetched |-> TRUE,
              start_date |-> IF checked THEN gap.missing.start ELSE StrDate(start_date),
              end_date |-> IF checked THEN gap.missing.end ELSE StrDate(end_date),
              returns |-> IF return_df THEN "DataFrame" ELSE "list",
              rows |-> IF return_df THEN drop_duplicates(concat) ELSE data,
              existing_df |-> left]

\* End of the interval asked of get_data_for_range: half an hour.
ShortEnd == 6 * FiveMinutes

\* Frames over [0, ShortEnd]: 101 and 102 complete; 102 absent; 102 with a
\* gap; both with the same gap; plant 1 with 101 complete and 102 absent and
\* plant 2 with 102 complete; a frame without dates; no frame.
ShortFrames ==
    LET Strs == [d \in 0..ShortEnd |-> StrDate(d)]
        Stamps == [d \in 0..ShortEnd |-> Timestamp(d)]
        Whole(plant, id, dated) == Series(plant, id, dated, 0, ShortEnd, 0, 0)
        Holed(plant, id, dated) ==
            Series(plant, id, dated, 0, ShortEnd, 2 * FiveMinutes, 4 * FiveMinutes)
    IN  {DataFrame("Date", Whole(1, 101, Stamps) \o Whole(1, 102, Stamps)),
         DataFrame("Date", Whole(1, 101, Stamps)),
         DataFrame("RangeIndex", Whole(1, 101, Strs) \o Whole(1, 102, Strs)),
         DataFrame("RangeIndex", Whole(1, 101, Strs) \o Holed(1, 102, Strs)),
         DataFrame("RangeIndex", Holed(1, 101, Stamps) \o Holed(1, 102, Stamps)),
         DataFrame("PlantDate", Whole(1, 101, Stamps) \o Whole(2, 102, Stamps)),
         DataFrame("NoDate", Whole(1, 101, Stamps)),
         NoFrame}

\* What the client returns: nothing, one record, the same key twice with two
\* values, a key of 102 twice around a record of 101.
FetchedLists ==
    LET Record(id, d, v) == [DataSourceId |-> id, Date |-> StrDate(d), Value |-> v]
    IN  {<<>>,
         <<Record(101, 0, 1)>>,
         <<Record(101, 0, 1), Record(101, 0, 2)>>,
         <<Record(102, FiveMinutes, 1), Record(101, FiveMinutes, 2),
           Record(102, FiveMinutes, 2)>>}

RangeCall(df, ids, p, rd, now, data) ==
    [op |-> "get_data_for_range", existing_df |-> df, start_date |-> 0,
     end_date |-> ShortEnd, datasourceids |-> ids, plant_id |-> p,
     return_df |-> rd, now |-> now, data |-> data]

\* plant_id is given only with a frame indexed by (PlantId, Date).
RangeCalls ==
    {RangeCall(df, ids, IF plant /\ df.index = "PlantDate" THEN 1 ELSE 0, rd, now, data) :
        df \in ShortFrames, ids \in {<<101>>, <<101, 102>>}, plant \in BOOLEAN,
        rd \in BOOLEAN, now \in Nows(ShortEnd), data \in FetchedLists}

\* filter_datasourceids returns a list of identifiers as it is given.
CallRange ==
    /\ call.op = "get_data_for_range"
    /\ ~outcome.done
    /\ outcome' = [done |-> TRUE,
                   datasourceids |-> call.datasourceids,
                   result |-> get_data_for_range(call.existing_df, call.start_date,
                                                 call.end_date, call.plant_id,
                                                 call.return_df, call.now, call.data)]
    /\ UNCHANGED <<vars, call>>

\* The calls made on their own.
Calls == SplitCalls \cup EstimateCalls \cup MergeCalls \cup MissingCalls \cup RangeCalls

\* The fetch engine's variables while single calls are made.
EngineIdle ==
    /\ arg = Arg(<<>>, 0, 0, "minute", 1, {0}, {}, {}, 0)
    /\ max_retries = 0
    /\ pc = "idle"
    /\ datasources = <<>>
    /\ retry_count = 0
    /\ complete_data = <<>>
    /\ tasks = <<>>
    /\ hist = <<>>
    /\ lastSplit = NoSplit
    /\ finished = <<>>

FnInit ==
    /\ EngineIdle
    /\ call \in Calls
    /\ outcome = NotCalled

FnNext ==
    \/ CallSplit
    \/ CallEstimate
    \/ CallMerge
    \/ CallMissing
    \/ CallRange

SpecFn == FnInit /\ [][FnNext]_allVars

\* ------------------------------------------------------------- claims

Rounds == Len(hist)

\* The identifiers passed to get_data_list by a round's tasks.
Queried(ts) == UNION {Range(ts[b].batch) : b \in 1..Len(ts)}

\* Identifier ds reached its expected count in completed round i.
SatisfiedIn(ds, i) == ~BelowExpected(CountOf(ds, hist[i].data), ExpectedCount)

\* The Pending list left by completed round i.
PendingAfter(i) == IF i = Rounds THEN datasources ELSE hist[i + 1].pending

\* The invocation of the spec's first end-to-end scenario, after a first
\* round that returned 11 records for 101 and 6 for 102.
C1_Scenario ==
    /\ arg.datasources = <<101, 102>>
    /\ arg.start_date = 300 /\ arg.end_date = 3600
    /\ arg.grouping = "minute" /\ arg.granularity = 5
    /\ Rounds >= 1
    /\ CountOf(101, hist[1].data) = 11
    /\ CountOf(102, hist[1].data) = 6

C2_SatisfiedOrExhausted ==
    pc = "done" =>
        \/ Rounds = max_retries
        \/ \A ds \in Range(arg.datasources) :
              \E i \in 1..Rounds :
                  /\ ds \in Range(hist[i].pending)
                  /\ SatisfiedIn(ds, i)
                  /\ ds \notin Range(PendingAfter(i))

\* Returned before the budget was used up, after more than one round.
C2_Witness ==
    /\ pc = "done"
    /\ Rounds >= 2
    /\ Rounds < max_retries

\* What round j (completed, or in flight when j = Rounds + 1) dispatched.
DispatchedIn(j) == IF j <= Rounds THEN Queried(hist[j].tasks) ELSE Queried(tasks)

LastDispatched == IF pc = "fetch" THEN Rounds + 1 ELSE Rounds

\* C3: Pending only shrinks: each round dispatches exactly the Pending list,
\* a subset of what the round before dispatched, so an identifier dropped
\* after round i is passed to get_data_list in no later round.
C3_PendingShrinks ==
    /\ \A j \in 1..Rounds : DispatchedIn(j) = Range(hist[j].pending)
    /\ pc = "fetch" => DispatchedIn(Rounds + 1) = Range(datasources)
    /\ Range(datasources) \subseteq Range(arg.datasources)
    /\ \A i \in 1..LastDispatched : \A j \in i..LastDispatched :
          /\ DispatchedIn(j) \subseteq DispatchedIn(i)
          /\ \A ds \in DispatchedIn(i) :
                (i < j /\ ds \notin Range(PendingAfter(i))) => ds \notin DispatchedIn(j)

\* A third round is in flight for fewer identifiers than the first, after a
\* second round in which an identifier still Pending got no record at all.
C3_Witness ==
    /\ Rounds = 2
    /\ pc = "fetch"
    /\ Range(hist[2].pending) # Range(hist[1].pending)
    /\ Range(datasources) # Range(hist[2].pending)
    /\ \E ds \in Range(hist[2].pending) : CountOf(ds, hist[2].data) = 0

\* C4 as stated: a call that was answered 416 returns the records of its
\* first half followed by the records of its second half, whatever the two
\* halves returned (records, no record, or None after a transport failure).
C4_Concatenation ==
    (lastSplit.seen /\ lastSplit.first_half.tag \in {"list", "None"}
                    /\ lastSplit.second_half.tag \in {"list", "None"})
        => /\ lastSplit.mid = split_dates_in_half(lastSplit.start, lastSplit.end)
           /\ lastSplit.returned.tag = "list"
           /\ lastSplit.returned.items =
                 Contribution(lastSplit.first_half) \o Contribution(lastSplit.second_half)

\* C5 as stated: every recursive get_data_list call is made on an interval
\* strictly shorter than its caller's.
C5_StrictlyShorter ==
    \A b \in 1..Len(tasks) : \A k \in 2..Len(tasks[b].stack) :
        tasks[b].stack[k].end - tasks[b].stack[k].start
            < tasks[b].stack[k - 1].end - tasks[b].stack[k - 1].start

\* C6 as stated: the invocation ends after at most max_retries rounds, and
\* after fewer only when Pending has become empty.
C6_StopsOnlyWhenEmptyOrExhausted ==
    pc \in {"done", "raised"} =>
        /\ Rounds <= max_retries
        /\ Rounds < max_retries => datasources = <<>>

\* The merged outputs of the completed rounds, in round order.
RoundOutputs == Flatten([i \in 1..Rounds |-> hist[i].data])

\* C7: once max_retries rounds are run with Pending still non-empty, no
\* exception is raised and the accumulator returned is the concatenation of
\* every round's merged output in round order, duplicates included.
C7_PartialResult ==
    (Rounds = max_retries /\ datasources # <<>>) =>
        /\ pc \in {"loop", "done"}
        /\ retry_count = max_retries
        /\ complete_data = RoundOutputs

\* Returned on an exhausted budget with a record fetched in two rounds.
C7_Witness ==
    /\ pc = "done"
    /\ datasources # <<>>
    /\ Rounds >= 2
    /\ \E i \in 1..Len(hist[1].data) : \E j \in 1..Len(hist[2].data) :
          hist[1].data[i] = hist[2].data[j]
    /\ Len(complete_data) = Len(hist[1].data) + Len(hist[2].data)
                              + (IF Rounds >= 3 THEN Len(hist[3].data) ELSE 0)

\* What a batch's call puts into the round's merged output according to C8:
\* nothing after a transport failure, else the records the call returned.
OfTask(task) ==
    IF task.failed \/ task.result.tag # "list" THEN <<>> ELSE task.result.items

\* C8: a batch whose call met a transport failure puts no record into the
\* round's merged output, every other batch's records are in it as its call
\* returned them whether the other batches failed, were rejected or not,
\* and an exception leaves the invocation only when some call was answered
\* with an error body, never because of a failure or a rejection.
C8_FailureIsEmpty ==
    /\ \A i \in 1..Rounds :
          hist[i].data =
              Flatten([b \in 1..Len(hist[i].tasks) |-> OfTask(hist[i].tasks[b])])
    /\ pc = "raised" => \E b \in 1..Len(tasks) : tasks[b].errors

\* A completed round of two batches: the first met a transport failure at
\* the top-level call, the second was rejected, split and returned records.
C8_Witness ==
    \E i \in 1..Rounds :
        /\ Len(hist[i].tasks) = 2
        /\ hist[i].tasks[1].result.tag = "None"
        /\ hist[i].tasks[2].rejected
        /\ hist[i].data # <<>>
        /\ hist[i].data = hist[i].tasks[2].result.items

\* C9 as stated: an answer with a non-success status other than 416 never
\* makes the invocation end with an exception.
C9_ErrorAnswerIsEmpty ==
    ~(pc = "raised" /\ \E b \in 1..Len(tasks) : tasks[b].errors)

\* C10: when every requested identifier has at least expected_count records
\* in the first round, that round is the only one: Pending is empty after
\* it and nothing more is dispatched.
C10_OneRound ==
    (Rounds >= 1 /\ \A ds \in Range(arg.datasources) : SatisfiedIn(ds, 1)) =>
        /\ Rounds = 1
        /\ retry_count = 1
        /\ datasources = <<>>
        /\ pc \in {"loop", "done"}
        /\ complete_data = hist[1].data

\* Returned after one satisfied round of two batches with retries left.
C10_Witness ==
    /\ pc = "done"
    /\ Rounds = 1
    /\ max_retries >= 2
    /\ Len(hist[1].tasks) = 2
    /\ ExpectedCount.num > 0
    /\ \A ds \in Range(arg.datasources) : SatisfiedIn(ds, 1)

\* C11: for start <= end the midpoint is start + floor((end - start) / 2)
\* seconds and lies in [start, end]; the halves are [start, m] and [m, end],
\* which share the boundary m, cover every second of the interval and have
\* no instant strictly inside both.
C11_Halves ==
    (call.op = "split_dates_in_half" /\ outcome.done) =>
        LET s == call.start_date
            e == call.end_date
            h == outcome.halves
        IN  /\ h.midpoint = s + (e - s) \div 2
            /\ s <= h.midpoint /\ h.midpoint <= e
            /\ h.left.start = s
            /\ h.left.end = h.midpoint
            /\ h.right.start = h.midpoint
            /\ h.right.end = e
            /\ \A x \in s..e :
                  /\ (h.left.start <= x /\ x <= h.left.end)
                        \/ (h.right.start <= x /\ x <= h.right.end)
                  /\ ~(h.left.start < x /\ x < h.left.end
                        /\ h.right.start < x /\ x < h.right.end)

\* An interval of an odd number of seconds has been split: the exact
\* midpoint falls on a half second and is floored.
C11_Witness ==
    /\ call.op = "split_dates_in_half"
    /\ outcome.done
    /\ (call.end_date - call.start_date) % 2 = 1
    /\ call.end_date - call.start_date >= 3
    /\ outcome.halves.midpoint > call.start_date

\* The batches of a round's tasks, in submission order.
BatchesOf(ts) == [b \in 1..Len(ts) |-> ts[b].batch]

\* ts are the tasks fetch_data submitted for the list pending.
PartitionOf(ts, pending) ==
    /\ \A b \in 1..Len(ts) : Len(ts[b].batch) >= 1 /\ Len(ts[b].batch) <= 10
    /\ Flatten(BatchesOf(ts)) = pending
    /\ 10 * Len(ts) >= Len(pending)
    /\ 10 * (Len(ts) - 1) < Len(pending) \/ (Len(ts) = 0 /\ pending = <<>>)

\* C12: in every round the batches handed to get_data_list hold at most 10
\* identifiers each and, put end to end, are the Pending list itself (every
\* occurrence in exactly one batch), and their number is ceil(|Pending| / 10).
C12_Partition ==
    /\ \A i \in 1..Rounds : PartitionOf(hist[i].tasks, hist[i].pending)
    /\ pc = "fetch" => PartitionOf(tasks, datasources)

\* Eleven identifiers are in flight as a batch of ten and a batch of one.
C12_Witness ==
    /\ pc = "fetch"
    /\ Len(datasources) = 11
    /\ Len(tasks) = 2
    /\ Len(tasks[1].batch) = 10
    /\ tasks[2].batch = <<111>>

\* How many times record x occurs in the sequence data.
Occurrences(x, data) == Cardinality({i \in 1..Len(data) : data[i] = x})

RECURSIVE SumOver(_, _)
SumOver(f, n) == IF n = 0 THEN 0 ELSE f[n] + SumOver(f, n - 1)

\* The record lists returned by a round's get_data_list calls (a call that
\* returned None returned no list).
Returned(ts) ==
    [b \in 1..Len(ts) |->
        IF ts[b].result.tag = "list" THEN ts[b].result.items ELSE <<>>]

\* C13: a round's merged output has as many records as its batches' calls
\* returned in total, and each record as many times as the calls returned it.
C13_MergeKeepsAll ==
    \A i \in 1..Rounds :
        LET lists == Returned(hist[i].tasks)
            n     == Len(lists)
        IN  /\ Len(hist[i].data) = SumOver([b \in 1..n |-> Len(lists[b])], n)
            /\ \A x \in Range(hist[i].data) \cup UNION {Range(lists[b]) : b \in 1..n} :
                  Occurrences(x, hist[i].data)
                      = SumOver([b \in 1..n |-> Occurrences(x, lists[b])], n)

\* A first round merged two non-empty batch results, a second round followed.
C13_Witness ==
    /\ Rounds = 2
    /\ Len(hist[1].tasks) = 2
    /\ hist[1].tasks[1].result.items # <<>>
    /\ hist[1].tasks[2].result.items # <<>>
    /\ Len(hist[1].data) = Len(hist[1].tasks[1].result.items) + 1
    /\ hist[2].data # <<>>

\* Seconds in one unit of a recognized grouping.
UnitSeconds(grouping) ==
    CASE grouping = "minute" -> 60
      [] grouping = "hour"   -> 3600
      [] grouping = "day"    -> 86400

\* C14 as stated: for minute, hour and day the estimate is the elapsed time
\* of [start, end] in the grouping's unit, fractions included, divided by
\* granularity (as an equation between fractions: value = seconds /
\* (unit seconds * granularity)); one hour at ('minute', 1) gives 60.
C14_ElapsedOverGranularity ==
    (call.op = "expected_measurement_count" /\ outcome.done /\ ~outcome.raised
        /\ call.grouping \in {"minute", "hour", "day"}) =>
        /\ outcome.value.num * UnitSeconds(call.grouping) * call.granularity
              = (call.end_date - call.start_date) * outcome.value.den
        /\ (call.grouping = "minute" /\ call.granularity = 1
                /\ call.end_date - call.start_date = 3600)
              => outcome.value.num = 60 * outcome.value.den

\* C15: for a grouping other than minute, hour and day the threshold is 0
\* and no identifier is ever kept Pending: at most one round is run, and a
\* returned invocation that had identifiers and max_retries >= 1 ran exactly
\* one, whatever came back.
C15_NeverRetries ==
    arg.grouping \notin {"minute", "hour", "day"} =>
        /\ ExpectedCount.num = 0
        /\ Rounds <= 1
        /\ Rounds = 1 => datasources = <<>>
        /\ pc # "raised"
        /\ (pc = "done" /\ arg.datasources # <<>> /\ max_retries >= 1) => Rounds = 1

\* Returned after a single round in which nothing came back, retries left.
C15_Witness ==
    /\ arg.grouping = "week"
    /\ pc = "done"
    /\ max_retries = 2
    /\ Rounds = 1
    /\ hist[1].data = <<>>
    /\ arg.datasources = <<101, 102>>

\* C16 as stated: a call of the estimator with an unrecognized grouping ends
\* with an error.
C16_Original ==
    (call.op = "expected_measurement_count" /\ outcome.done
        /\ call.grouping \notin {"minute", "hour", "day"}) => outcome.raised

\* C16 as amended: a call of the estimator with an unrecognized grouping
\* raises nothing and returns 0, for every interval and every granularity
\* (0 included, which is an error for the recognized groupings).
C16_Amended ==
    (call.op = "expected_measurement_count" /\ outcome.done) =>
        /\ call.grouping \notin {"minute", "hour", "day"} =>
              ~outcome.raised /\ outcome.value.num = 0 /\ outcome.value.den = 1
        /\ outcome.raised =>
              call.grouping \in {"minute", "hour", "day"} /\ call.granularity = 0

\* The estimator returned 0 for grouping 'week' over a day, granularity 0.
C16_Witness ==
    /\ call.op = "expected_measurement_count"
    /\ call.grouping = "week"
    /\ call.granularity = 0
    /\ call.end_date - call.start_date = 86400
    /\ outcome.done
    /\ ~outcome.raised
    /\ outcome.value.num = 0

\* The instants a frame holds for the plant asked (every plant when none is).
HeldDates(c) ==
    {c.df.rows[i].Date.t :
        i \in {j \in 1..Len(c.df.rows) :
                  c.plant_id = 0 \/ c.df.rows[j].PlantId = c.plant_id}}

\* The five-minute instants of [from, to].
Grid(from, to) ==
    {FiveMinutes * k : k \in ((from + FiveMinutes - 1) \div FiveMinutes)..(to \div FiveMinutes)}

\* C18: get_missing_dates returns (None, None) for a frame that holds every
\* five-minute instant of [s, e]; for a frame of which exactly one whole day
\* inside [s, e] is missing (counted from 00:00:00 or from 00:05:00) it
\* returns a pair of midnights between which every missing instant lies.
C18_BracketsMissingDay ==
    (call.op = "get_missing_dates" /\ outcome.done /\ ~outcome.returned.raised) =>
        LET grid == Grid(call.start_date, call.end_date)
            held == HeldDates(call) \cap grid
            missing == outcome.returned.missing
        IN  /\ held = grid => missing.none
            /\ \A day \in {d \in grid : d % SecondsPerDay \in {0, FiveMinutes}} :
                  LET excised == {d \in grid : day <= d /\ d < day + SecondsPerDay}
                  IN  (/\ call.start_date < day
                       /\ day + SecondsPerDay <= call.end_date
                       /\ held = grid \ excised) =>
                          /\ ~missing.none
                          /\ missing.start.t % SecondsPerDay = 0
                          /\ missing.end.t % SecondsPerDay = 0
                          /\ \A d \in excised : missing.start.t <= d /\ d <= missing.end.t

\* The second day is missing from a frame with a column 'Date'; the pair
\* returned is that day's midnight and the next.
C18_Witness ==
    /\ call.op = "get_missing_dates"
    /\ call.df.index = "RangeIndex"
    /\ call.start_date = 430
    /\ Len(call.df.rows) < Cardinality(Grid(0, LastDay))
    /\ outcome.done
    /\ ~outcome.returned.missing.none
    /\ outcome.returned.missing.start = Timestamp(SecondsPerDay)
    /\ outcome.returned.missing.end = Timestamp(2 * SecondsPerDay)

\* Two records share (DataSourceId, Date): the same identifier at the same
\* instant.
SameKey(a, b) ==
    /\ a.DataSourceId = b.DataSourceId
    /\ a.Date.type # "NaN"
    /\ b.Date.type # "NaN"
    /\ a.Date.t = b.Date.t

\* For every key that two records of input share with different values,
\* output has exactly one record, with the value of the last such record of
\* input.
KeepsLast(input, output) ==
    \A i \in 1..Len(input) : \A j \in (i + 1)..Len(input) :
        (SameKey(input[i], input[j]) /\ input[i].Value # input[j].Value) =>
            LET last == CHOOSE k \in 1..Len(input) :
                            /\ SameKey(input[k], input[i])
                            /\ \A l \in (k + 1)..Len(input) : ~SameKey(input[l], input[i])
                found == {k \in 1..Len(output) : SameKey(output[k], input[i])}
            IN  /\ Cardinality(found) = 1
                /\ \A k \in found : output[k].Value = input[last].Value

\* C17 as stated: the duplicate drop of merge_and_pivot, and
\* get_data_for_range with return_df=True over the existing rows followed by
\* the fetched records, leave exactly one record for a key that had several
\* values, and it carries the value seen last.
C17_KeepsLastSeen ==
    /\ (call.op = "merge_and_pivot" /\ outcome.done) =>
          KeepsLast(call.df, outcome.frames.df)
    /\ (call.op = "get_data_for_range" /\ outcome.done /\ outcome.result.fetched
            /\ call.return_df) =>
          KeepsLast(call.existing_df.rows \o call.data, outcome.result.rows)

\* The instants get_missing_dates expects of [start_date, end_date] at the
\* instant now: every five minutes after the floored start, up to the end and
\* to a quarter of an hour before now.
ExpectedDates(c) ==
    {d \in Grid(c.start_date, c.end_date) :
        /\ d > c.start_date - (c.start_date % FiveMinutes)
        /\ d <= c.now.sec - Lag}

\* C19 as stated: when get_data_for_range returns the existing frame without
\* asking the client, every identifier asked for has a row (of the plant
\* asked, when one is) at every expected instant.
C19_SkipOnlyWhenCovered ==
    (call.op = "get_data_for_range" /\ outcome.done /\ call.existing_df # NoFrame
        /\ ~outcome.result.raised /\ ~outcome.result.fetched) =>
        \A id \in Range(call.datasourceids) : \A d \in ExpectedDates(call) :
            \E i \in 1..Len(call.existing_df.rows) :
                LET r == call.existing_df.rows[i]
                IN  /\ r.DataSourceId = id
                    /\ r.Date.t = d
                    /\ call.plant_id = 0 \/ r.PlantId = call.plant_id

\* C20 as stated: after get_missing_dates or get_data_for_range the frame the
\* caller passed is what it was: same index, same rows, same values and
\* types.
C20_ExistingUnchanged ==
    /\ (call.op = "get_missing_dates" /\ outcome.done) =>
          outcome.returned.df = call.df
    /\ (call.op = "get_data_for_range" /\ outcome.done) =>
          outcome.result.existing_df = call.existing_df

\* C21: in every round the ledger is built from that round's records alone
\* and for the identifiers Pending in that round alone: an identifier is
\* Pending after the round iff it was Pending in it and its count among the
\* round's records is strictly below expected_count (a count equal to or
\* above it drops the identifier); the records of other identifiers are
\* accumulated and never make an identifier Pending.
C21_LedgerOfTheRound ==
    /\ \A i \in 1..Rounds :
          /\ Range(PendingAfter(i)) \subseteq Range(hist[i].pending)
          /\ \A ds \in Range(hist[i].pending) :
                ds \in Range(PendingAfter(i)) <=>
                    CountOf(ds, hist[i].data) * ExpectedCount.den < ExpectedCount.num
          /\ \A k \in 1..Len(hist[i].data) :
                \E n \in 1..Len(complete_data) : complete_data[n] = hist[i].data[k]
    /\ Len(complete_data) = Len(RoundOutputs)

\* Round 1 returned two records of 101 where one was expected and none of
\* 102; round 2 asked for 102 alone and returned one record of 102 and one
\* of 101: both identifiers are dropped and the record of 101 is accumulated.
C21_Witness ==
    /\ "stray" \in arg.outcomes
    /\ pc = "done"
    /\ Rounds = 2
    /\ ExpectedCount.num = ExpectedCount.den
    /\ CountOf(101, hist[1].data) = 2
    /\ CountOf(102, hist[1].data) = 0
    /\ hist[2].pending = <<102>>
    /\ CountOf(101, hist[2].data) = 1
    /\ CountOf(102, hist[2].data) = 1
    /\ datasources = <<>>
    /\ CountOf(101, complete_data) = 3

\* No task of ts is running.
AllCompleted(ts) ==
    \A b \in 1..Len(ts) : ts[b].stack = <<>> /\ ts[b].result.tag # "running"

\* At every instant: tasks run only inside fetch_data; a round is merged and
\* evaluated with every one of its tasks completed, and its merged output is
\* its tasks' results put end to end in the order the batches were
\* submitted; the tasks in flight were cut from the Pending list the last
\* ledger left, after as many ledgers as rounds were started before.
C22_State ==
    /\ (\E b \in 1..Len(tasks) : tasks[b].result.tag = "running") => pc = "fetch"
    /\ \A i \in 1..Rounds :
          /\ AllCompleted(hist[i].tasks)
          /\ hist[i].data = Flatten(Returned(hist[i].tasks))
    /\ pc = "fetch" =>
          /\ Rounds = retry_count
          /\ Flatten(BatchesOf(tasks)) = datasources
          /\ finished = SelectSeq(finished, LAMBDA b : tasks[b].stack = <<>>)
          /\ Rounds >= 1 =>
                /\ AllCompleted(hist[Rounds].tasks)
                /\ Range(datasources) =
                      {ds \in Range(hist[Rounds].pending) :
                          BelowExpected(CountOf(ds, hist[Rounds].data), ExpectedCount)}

\* In every step: the accumulator, the Pending list, the round counter and
\* the history of rounds change only when no task is running, and then the
\* tasks are left as they are; new tasks are submitted only from the loop
\* test, with no task running.
C22_Step ==
    /\ (complete_data' # complete_data \/ datasources' # datasources
            \/ retry_count' # retry_count \/ hist' # hist) =>
          AllCompleted(tasks) /\ tasks' = tasks /\ Len(finished) = Len(tasks)
    /\ (pc' = "fetch" /\ pc # "fetch") =>
          pc = "loop" /\ AllCompleted(tasks) /\ Rounds = retry_count

\* C22: under every interleaving of a round's tasks the merge and the ledger
\* come after the completion of all of them, the next round's tasks are
\* started after the ledger, and the round's merged output is the
\* concatenation of the results in submission order whatever the order of
\* completion.
C22_RoundsAreSequential == [](C22_State) /\ [][C22_Step]_allVars

\* Two batches were submitted, the second completed first, and the merged
\* output of the round is the first batch's records followed by the second's.
C22_Witness ==
    /\ pc = "done"
    /\ Rounds = 1
    /\ Len(tasks) = 2
    /\ finished = <<2, 1>>
    /\ tasks[1].result.tag = "list"
    /\ tasks[2].result.tag = "list"
    /\ tasks[1].result.items # <<>>
    /\ tasks[2].result.items # <<>>
    /\ hist[1].data = tasks[1].result.items \o tasks[2].result.items
    /\ hist[1].data # tasks[2].result.items \o tasks[1].result.items

\* The records merge_and_pivot merges: the rows left of the caller's frame
\* whose DataSourceId the DataSource frame holds.
MergedRecords ==
    SelectSeq(outcome.frames.df, LAMBDA r : r.DataSourceId \in DOMAIN call.ds)

\* C23 as stated: with a field_mapper, a merged record whose DataSourceName
\* is no key of the mapper is absent from the output, a record whose name is
\* a key is in the output under the label the mapper gives it, and every
\* label of the output is a label the mapper gives to the record's name.
C23_MappedOrAbsent ==
    (call.op = "merge_and_pivot" /\ outcome.done /\ DOMAIN call.field_mapper # {}) =>
        LET mapper == call.field_mapper
            out == outcome.frames.merged
        IN  /\ \A i \in 1..Len(MergedRecords) :
                  LET r == MergedRecords[i]
                      name == call.ds[r.DataSourceId]
                  IN  IF name \in DOMAIN mapper
                      THEN \E k \in 1..Len(out) :
                              /\ out[k].DataSourceId = r.DataSourceId
                              /\ out[k].Date = r.Date
                              /\ out[k].Value = r.Value
                              /\ out[k].DataSourceName = mapper[name]
                      ELSE \A k \in 1..Len(out) : out[k].DataSourceId # r.DataSourceId
            /\ \A k \in 1..Len(out) :
                  /\ call.ds[out[k].DataSourceId] \in DOMAIN mapper
                  /\ out[k].DataSourceName = mapper[call.ds[out[k].DataSourceId]]

====
